---- MODULE Spec2Model ----
(***************************************************************************)
(* Model of jules-scratch/verification/verify_toc_tracking.py: main(), a   *)
(* linear script of awaited browser-automation calls wrapped in            *)
(* try / except Exception / finally inside `async with async_playwright()`.*)
(*                                                                         *)
(* pc names the call that is in progress.  The application under test and  *)
(* the browser are the environment: while a call is awaited the awaited    *)
(* condition may come to hold (AppReady), the call may fail at once (Fail),*)
(* or time passes (Tick) until the call's bound is reached (Timeout).      *)
(***************************************************************************)
EXTENDS Integers, Sequences, FiniteSets

VARIABLES
    pc,               \* the call in progress, "aexit" or "done"
    elapsed,          \* ticks spent in the call in progress
    ready,            \* the condition the call in progress awaits holds
    bound,            \* the timeout argument the call in progress was given
    pending,          \* an exception is propagating (not caught by L49)
    outcome,          \* "running", "returned" or "raised": how main() ended
    files,            \* screenshot files written by this run
    out,              \* lines printed, in order
    trace,            \* calls made so far, in order
    completed,        \* calls that returned normally
    failedAt,         \* the call of the try body that raised, or "none"
    envFailed,        \* the environment made some call raise
    exc,              \* the exception raised last, or "none"
    firstIsProperty,  \* the library binds Locator.first as a property
    openBrowsers,     \* browser instances open
    openPages,        \* pages open
    driver            \* the playwright driver of the `async with` scope

vars == << pc, elapsed, ready, bound, pending, outcome, files, out, trace,
           completed, failedAt, envFailed, exc, firstIsProperty,
           openBrowsers, openPages, driver >>

-----------------------------------------------------------------------------
(* Program constants *)

GotoTimeout == 60000
LinkTimeout == 30000
ReaderTimeout == 30000
TocButtonTimeout == 10000
TocPanelTimeout == 10000
SettleDelay == 2000
\* a call written without a timeout keyword
NoTimeoutArg == 0
\* the bound the library applies to a call given no timeout keyword
DefaultTimeout == 30000
\* one tick of model time is the settle delay of line 42
TickMs == SettleDelay

VerificationPng == "jules-scratch/verification/verification.png"
ErrorPng == "jules-scratch/verification/error.png"
SuccessMsg == "Screenshot taken successfully."
ErrorMsg == "An error occurred"

\* the calls of the try body, lines 11-47, in program order
TryBody == << "goto", "first17", "expect_link", "first18", "click_link",
              "expect_reader", "hover", "expect_toc", "click_toc",
              "expect_nav", "evaluate", "wait_for_timeout", "screenshot",
              "print_ok" >>

TryCalls == { TryBody[i] : i \in 1..Len(TryBody) }

Calls == {"launch", "new_page"} \cup TryCalls
            \cup {"print_err", "err_screenshot", "close"}

\* calls that wait on the page, bounded by a timeout
TimedCalls == {"goto", "expect_link", "click_link", "expect_reader", "hover",
               "expect_toc", "click_toc", "expect_nav", "evaluate",
               "screenshot", "err_screenshot"}

\* awaited calls: the environment decides whether they return or raise
AwaitedCalls == TimedCalls \cup {"launch", "new_page", "close"}

\* calls on the page object
PageCalls == TimedCalls \cup {"wait_for_timeout"}

IndexIn(s, c) == CHOOSE i \in 1..Len(s) : s[i] = c

\* mutant: the settle delay is skipped, the screenshot follows the scroll
SuccNoSettle(c) ==
    CASE c = "launch" -> "new_page"
      [] c = "new_page" -> "goto"
      [] c = "evaluate" -> "screenshot"
      [] c = "print_ok" -> "close"
      [] c = "print_err" -> "err_screenshot"
      [] c = "err_screenshot" -> "close"
      [] c = "close" -> "aexit"
      [] OTHER -> TryBody[IndexIn(TryBody, c) + 1]

\* the call that follows call c when c returns normally
Succ(c) ==
    CASE c = "launch" -> "new_page"
      [] c = "new_page" -> "goto"
      [] c = "print_ok" -> "close"
      [] c = "print_err" -> "err_screenshot"
      [] c = "err_screenshot" -> "close"
      [] c = "close" -> "aexit"
      [] OTHER -> TryBody[IndexIn(TryBody, c) + 1]

\* mutant: a failed step is swallowed and the script carries on
OnRaiseSwallow(c) ==
    IF c \in TryCalls THEN Succ(c)
    ELSE IF c = "err_screenshot" THEN "close"
    ELSE "aexit"

\* mutant: the handler goes to the screenshot without printing the error
OnRaiseNoPrint(c) ==
    IF c \in TryCalls THEN "err_screenshot"
    ELSE IF c = "err_screenshot" THEN "close"
    ELSE "aexit"

\* where control goes when call c raises: the except clause for the try
\* body, the finally clause for the handler, out of main() otherwise
OnRaise(c) ==
    IF c \in TryCalls THEN "print_err"
    ELSE IF c = "err_screenshot" THEN "close"
    ELSE "aexit"

\* mutant: every wait is given the 30 s bound
TimeoutArgAll30(c) ==
    CASE c \in {"goto", "expect_link", "expect_reader", "expect_toc",
                "expect_nav"} -> LinkTimeout
      [] c = "wait_for_timeout" -> SettleDelay
      [] OTHER -> NoTimeoutArg

\* the timeout (or delay) argument the code passes to call c
TimeoutArg(c) ==
    CASE c = "goto" -> GotoTimeout
      [] c = "expect_link" -> LinkTimeout
      [] c = "expect_reader" -> ReaderTimeout
      [] c = "expect_toc" -> TocButtonTimeout
      [] c = "expect_nav" -> TocPanelTimeout
      [] c = "wait_for_timeout" -> SettleDelay
      [] OTHER -> NoTimeoutArg

\* the bound of a call in ticks
Ticks(b) == (IF b = NoTimeoutArg THEN DefaultTimeout ELSE b) \div TickMs

\* mutant: the deadline test is strict and never fires
TimedOutStrict(e, b) == e > Ticks(b)

\* the deadline of a call with bound b is reached after e ticks
TimedOut(e, b) == e >= Ticks(b)

\* mutant: the error screenshot is written to the success path
ScreenshotPathSame(c) == VerificationPng

\* the path a screenshot call writes
ScreenshotPath(c) ==
    IF c = "screenshot" THEN VerificationPng ELSE ErrorPng

\* mutant: closing the browser leaves its pages open
PagesAfterCloseLeak(n) == n

\* pages open after browser.close()
PagesAfterClose(n) == 0

-----------------------------------------------------------------------------
(* Steps *)

\* call c starts
Enter(c) ==
    /\ pc' = c
    /\ elapsed' = 0
    /\ ready' = FALSE
    /\ bound' = IF c \in Calls THEN TimeoutArg(c) ELSE NoTimeoutArg
    /\ trace' = IF c \in Calls THEN Append(trace, c) ELSE trace

\* the call in progress returns normally
Return ==
    /\ completed' = completed \cup {pc}
    /\ Enter(Succ(pc))

\* the call in progress raises exception e
Raise(e) ==
    /\ Enter(OnRaise(pc))
    /\ exc' = e
    /\ failedAt' = IF pc \in TryCalls /\ failedAt = "none" THEN pc ELSE failedAt
    /\ pending' = (pending \/ pc \notin TryCalls)
    /\ UNCHANGED completed

Init ==
    /\ pc = "launch"
    /\ elapsed = 0
    /\ ready = FALSE
    /\ bound = TimeoutArg("launch")
    /\ pending = FALSE
    /\ outcome = "running"
    /\ files = {}
    /\ out = << >>
    /\ trace = << "launch" >>
    /\ completed = {}
    /\ failedAt = "none"
    /\ envFailed = FALSE
    /\ exc = "none"
    /\ firstIsProperty \in BOOLEAN
    /\ openBrowsers = 0
    /\ openPages = 0
    /\ driver = "running"

\* line 6: browser = await p.chromium.launch(headless=True)
Launch ==
    /\ pc = "launch"
    /\ Return
    /\ openBrowsers' = openBrowsers + 1
    /\ UNCHANGED << pending, outcome, files, out, failedAt, envFailed, exc,
                    firstIsProperty, openPages, driver >>

\* line 7: page = await browser.new_page()
NewPage ==
    /\ pc = "new_page"
    /\ Return
    /\ openPages' = openPages + 1
    /\ UNCHANGED << pending, outcome, files, out, failedAt, envFailed, exc,
                    firstIsProperty, openBrowsers, driver >>

\* a page call that only waits: it returns once its condition holds
PageWait(c) ==
    /\ pc = c
    /\ ready
    /\ Return
    /\ UNCHANGED << pending, outcome, files, out, failedAt, envFailed, exc,
                    firstIsProperty, openBrowsers, openPages, driver >>

\* a call of Locator.first written as a method call.  Playwright's Python
\* API binds first as a property (firstIsProperty = TRUE): the property
\* yields a Locator, calling it raises TypeError inside the try body.  The
\* other binding (a method, as in the JavaScript API the line is written
\* for) is kept so that the statements after line 17 are exercised too.
FirstCall(c) ==
    /\ pc = c
    /\ IF firstIsProperty
       THEN /\ Raise("TypeError")
            /\ UNCHANGED << outcome, files, out, envFailed, firstIsProperty,
                            openBrowsers, openPages, driver >>
       ELSE /\ Return
            /\ UNCHANGED << pending, outcome, files, out, failedAt, envFailed, exc,
                            firstIsProperty, openBrowsers, openPages, driver >>

\* line 11
Goto == PageWait("goto")
\* line 17, page.locator(book_link_selector).first()
First17 == FirstCall("first17")
\* line 17, expect(...).to_be_visible(timeout=30000)
ExpectLink == PageWait("expect_link")
\* line 18, page.locator(book_link_selector).first()
First18 == FirstCall("first18")
\* line 18, .click()
ClickLink == PageWait("click_link")
\* line 22
ExpectReader == PageWait("expect_reader")
\* line 25
Hover == PageWait("hover")
\* line 29
ExpectToc == PageWait("expect_toc")
\* line 30
ClickToc == PageWait("click_toc")
\* line 35
ExpectNav == PageWait("expect_nav")
\* line 39
Evaluate == PageWait("evaluate")

\* line 42: await page.wait_for_timeout(2000) returns when the delay is over
WaitForTimeout ==
    /\ pc = "wait_for_timeout"
    /\ TimedOut(elapsed, bound)
    /\ Return
    /\ UNCHANGED << pending, outcome, files, out, failedAt, envFailed, exc,
                    firstIsProperty, openBrowsers, openPages, driver >>

\* a screenshot call returns: its file is written
TakeScreenshot(c) ==
    /\ pc = c
    /\ ready
    /\ Return
    /\ files' = files \cup {ScreenshotPath(c)}
    /\ UNCHANGED << pending, outcome, out, failedAt, envFailed, exc,
                    firstIsProperty, openBrowsers, openPages, driver >>

\* line 45
Screenshot == TakeScreenshot("screenshot")
\* line 52
ErrScreenshot == TakeScreenshot("err_screenshot")

\* line 47
PrintOk ==
    /\ pc = "print_ok"
    /\ Return
    /\ out' = Append(out, << SuccessMsg >>)
    /\ UNCHANGED << pending, outcome, files, failedAt, envFailed, exc,
                    firstIsProperty, openBrowsers, openPages, driver >>

\* line 50
PrintErr ==
    /\ pc = "print_err"
    /\ Return
    /\ out' = Append(out, << ErrorMsg, exc >>)
    /\ UNCHANGED << pending, outcome, files, failedAt, envFailed, exc,
                    firstIsProperty, openBrowsers, openPages, driver >>

\* line 55: await browser.close() closes the browser and its pages
Close ==
    /\ pc = "close"
    /\ Return
    /\ openBrowsers' = openBrowsers - 1
    /\ openPages' = PagesAfterClose(openPages)
    /\ UNCHANGED << pending, outcome, files, out, failedAt, envFailed, exc,
                    firstIsProperty, driver >>

\* line 5, leaving the `async with` block: the driver is stopped and takes
\* down whatever browser it still runs; main() ends
AExit ==
    /\ pc = "aexit"
    /\ pc' = "done"
    /\ driver' = "stopped"
    /\ openBrowsers' = 0
    /\ openPages' = 0
    /\ outcome' = IF pending THEN "raised" ELSE "returned"
    /\ UNCHANGED << elapsed, ready, bound, pending, files, out, trace,
                    completed, failedAt, envFailed, exc, firstIsProperty >>

\* time passes in a call that has not reached its bound
Tick ==
    /\ pc \in TimedCalls \cup {"wait_for_timeout"}
    /\ ~ready
    /\ elapsed < Ticks(bound)
    /\ elapsed' = elapsed + 1
    /\ UNCHANGED << pc, ready, bound, pending, outcome, files, out, trace,
                    completed, failedAt, envFailed, exc, firstIsProperty,
                    openBrowsers, openPages, driver >>

\* the bound of the call in progress is reached: the call raises
Timeout ==
    /\ pc \in TimedCalls
    /\ ~ready
    /\ TimedOut(elapsed, bound)
    /\ Raise("TimeoutError")
    /\ envFailed' = TRUE
    /\ UNCHANGED << outcome, files, out, firstIsProperty, openBrowsers,
                    openPages, driver >>

\* the application shows what the call in progress waits for
AppReady ==
    /\ pc \in TimedCalls
    /\ ~ready
    /\ ready' = TRUE
    /\ UNCHANGED << pc, elapsed, bound, pending, outcome, files, out, trace,
                    completed, failedAt, envFailed, exc, firstIsProperty,
                    openBrowsers, openPages, driver >>

\* the call in progress fails at once (navigation error, element not
\* found, evaluation error, crashed page, browser that cannot start)
Fail ==
    /\ pc \in AwaitedCalls
    /\ Raise("Error")
    /\ envFailed' = TRUE
    /\ UNCHANGED << outcome, files, out, firstIsProperty, openBrowsers,
                    openPages, driver >>

\* the steps of the script itself (time included)
Runner ==
    \/ Launch \/ NewPage \/ Goto \/ First17 \/ ExpectLink \/ First18
    \/ ClickLink \/ ExpectReader \/ Hover \/ ExpectToc \/ ClickToc
    \/ ExpectNav \/ Evaluate \/ WaitForTimeout \/ Screenshot \/ PrintOk
    \/ PrintErr \/ ErrScreenshot \/ Close \/ AExit \/ Tick \/ Timeout

\* the steps of the application and the browser
Environment == AppReady \/ Fail

Next == Runner \/ Environment

Spec == Init /\ [][Next]_vars

\* the event loop resumes the script whenever it can run
FairSpec == Spec /\ WF_vars(Runner)

-----------------------------------------------------------------------------
(* Properties *)

InTrace(c) == \E i \in 1..Len(trace) : trace[i] = c

Count(c) == Cardinality({ i \in 1..Len(trace) : trace[i] = c })

\* s is a prefix of t
IsPrefix(s, t) == Len(s) <= Len(t) /\ \A i \in 1..Len(s) : s[i] = t[i]

\* the calls made after the call at position i of the trace
After(i) == SubSeq(trace, i + 1, Len(trace))

\* the numbered step (1-9) a call of the try body belongs to, 0 for none
StepOf(c) ==
    CASE c = "goto" -> 1
      [] c \in {"first17", "expect_link", "first18", "click_link"} -> 2
      [] c = "expect_reader" -> 3
      [] c = "hover" -> 4
      [] c \in {"expect_toc", "click_toc"} -> 5
      [] c = "expect_nav" -> 6
      [] c = "evaluate" -> 7
      [] c = "wait_for_timeout" -> 8
      [] c = "screenshot" -> 9
      [] OTHER -> 0

\* the calls of the try body made so far, in order
TryPart == SelectSeq(trace, LAMBDA c : c \in TryCalls)

Finished == pc = "done"

\* a step of the try body raised
StepFailed == failedAt # "none"

\* C1: in every run in which the browser was launched, browser.close() is
\* executed before main() ends.
C1_CloseOnEveryExit ==
    (Finished /\ "launch" \in completed) => InTrace("close")

\* C2: after a run in which a step failed, error.png is written and
\* verification.png is not.
C2_ExactlyOneScreenshot ==
    (Finished /\ StepFailed) =>
        (ErrorPng \in files /\ VerificationPng \notin files)

\* C2, amended: after a run in which a step failed, verification.png is not
\* written, the error screenshot was attempted once, and error.png is
\* written exactly when that attempt returned; the two files are never both
\* written.
C2_AtMostErrorScreenshot ==
    /\ ~(ErrorPng \in files /\ VerificationPng \in files)
    /\ (Finished /\ StepFailed) =>
          /\ VerificationPng \notin files
          /\ Count("err_screenshot") = 1
          /\ (ErrorPng \in files <=> "err_screenshot" \in completed)

C2_Witness ==
    Finished /\ StepFailed /\ files = {ErrorPng}

\* C3: every failure of a step is absorbed by the handler: the error is
\* printed, the failure screenshot is attempted, cleanup runs, and main()
\* returns normally.
C3_NoExceptionEscapes ==
    (Finished /\ StepFailed) =>
        /\ Len(out) = 1 /\ out[1][1] = ErrorMsg
        /\ InTrace("err_screenshot")
        /\ InTrace("close")
        /\ outcome = "returned"

\* C4: when nothing in the environment fails (every awaited condition comes
\* to hold within its bound), the run writes verification.png, prints the
\* success message, does not write error.png and main() returns normally.
C4_CooperativeRunSucceeds ==
    (Finished /\ ~envFailed) =>
        /\ files = {VerificationPng}
        /\ out = << << SuccessMsg >> >>
        /\ outcome = "returned"

\* C5: the calls of the try body are made in program order, each only after
\* the one before it returned, so verification.png is written only after
\* the reader container and the contents panel were seen, the scroll was
\* done and the settle delay was over.
C5_StepsInOrder ==
    /\ IsPrefix(TryPart, TryBody)
    /\ \A i \in 2..Len(trace) :
          trace[i] \in TryCalls => trace[i - 1] \in completed
    /\ VerificationPng \in files =>
          /\ \A c \in TryCalls : StepOf(c) \in 1..9 => c \in completed
          /\ {"expect_reader", "expect_nav", "evaluate",
              "wait_for_timeout"} \subseteq completed

C5_Witness ==
    VerificationPng \in files /\ pc = "print_ok"

\* C6: every wait has the documented bound: 30 s for the navigation, the
\* first book link and the reader container, 10 s for the toolbar control
\* and the contents panel, 2 s of settle delay, and no call relies on a
\* default bound.
C6_DocumentedBounds ==
    /\ pc \in {"goto", "expect_link", "expect_reader"} => bound = 30000
    /\ pc \in {"expect_toc", "expect_nav"} => bound = 10000
    /\ pc = "wait_for_timeout" => bound = 2000
    /\ pc \in TimedCalls => bound # NoTimeoutArg

\* C6, amended: the navigation is bounded by 60 s, the waits for the first
\* book link and the reader container by 30 s, the waits for the toolbar
\* control and the contents panel by 10 s, the settle delay is 2 s; the
\* clicks, the hover, the evaluation and the two screenshots are given no
\* bound of their own; no wait lasts longer than its bound.
C6_BoundsAsCoded ==
    /\ pc = "goto" => bound = 60000
    /\ pc \in {"expect_link", "expect_reader"} => bound = 30000
    /\ pc \in {"expect_toc", "expect_nav"} => bound = 10000
    /\ pc = "wait_for_timeout" => bound = 2000
    /\ pc \in {"click_link", "hover", "click_toc", "evaluate", "screenshot",
               "err_screenshot"} => bound = NoTimeoutArg
    /\ pc \in TimedCalls /\ bound # NoTimeoutArg => elapsed * TickMs <= bound

C6_Witness ==
    pc = "goto" /\ ~ready /\ elapsed * TickMs > 30000

C8_OneBrowserOnePage ==
    /\ openBrowsers <= 1
    /\ openPages <= 1
    /\ Count("launch") <= 1
    /\ Count("new_page") <= 1
    /\ openPages > 0 => openBrowsers > 0

C8_Witness ==
    pc = "aexit" /\ {"new_page", "close"} \subseteq completed

\* C9: no call is made twice, and after a step has failed the only calls
\* made are the print of the error, one error screenshot and the close, in
\* that order.
C9_FailFast ==
    /\ \A c \in Calls : Count(c) <= 1
    /\ StepFailed =>
          /\ InTrace(failedAt)
          /\ IsPrefix(After(IndexIn(trace, failedAt)),
                      << "print_err", "err_screenshot", "close" >>)

C9_Witness ==
    /\ Finished
    /\ StepFailed
    /\ StepOf(failedAt) = 3
    /\ After(IndexIn(trace, failedAt))
          = << "print_err", "err_screenshot", "close" >>

\* C10: at most one message is printed; the success message only with
\* verification.png written and error.png not written; the error message
\* before the error screenshot is attempted; every page call before
\* browser.close().
C10_OutcomeMatchesArtifact ==
    /\ Len(out) <= 1
    /\ (Len(out) = 1 /\ out[1][1] = SuccessMsg) =>
          (VerificationPng \in files /\ ErrorPng \notin files)
    /\ InTrace("err_screenshot") =>
          (Len(out) = 1 /\ out[1][1] = ErrorMsg)
    /\ \A i, j \in 1..Len(trace) :
          (trace[i] = "close" /\ trace[j] \in PageCalls) => j < i

C10_Witness ==
    Finished /\ out = << << SuccessMsg >> >> /\ InTrace("close")

====
